---- MODULE Spec2Model ----
(***************************************************************************)
(* Model of the conversation-grounded legal query pipeline:                *)
(*   LexiAIService  (src/src/services/lexiAIService.js)                    *)
(*   AIService      (src/unnamed/part_001)                                 *)
(*   APIError       (src/src/utils/apiError.js)                            *)
(* A text is a sequence of tokens (strings).  An absent JavaScript value   *)
(* (undefined) is the string Undef.                                        *)
(***************************************************************************)
EXTENDS Integers, Sequences, FiniteSets, TLC

\* ------------------------------------------------------------------ bounds
\* longest message list a conversation may grow to
MaxMsgs == 5
\* longest history of a ContractConversation
MaxHistory == 3
\* longest text (in tokens) given to extractSuggestions on its own
MaxText == 3
\* largest elapsed wall-clock time (Date.now() - startTime)
MaxElapsed == 0
\* longest list of service names given to checkAll
MaxServices == 2

\* --------------------------------------------------------- program constants
\* http-status codes; every JavaScript value an error can hold in its message
\* or status field is written as a text, so that the two fields are comparable
\* whichever way round the constructor was called
BAD_REQUEST == <<"400">>
NOT_FOUND == <<"404">>
INTERNAL_SERVER_ERROR == <<"500">>
\* confidence 0.95, in hundredths
DefaultConfidence == 95
\* "no confidence key" in a parsed classifier object
NoNumber == -1

Undef == "undefined"

\* the fixed ordered model list of the adapter
modelNames == <<"gemini-2.5-flash", "gemini-1.5-flash", "gemini-pro">>

usedProvider == "google"

\* ------------------------------------------------------------------ inputs
Users == {"u1", "u2"}
\* the ids of the documents the store can hold
ConvIds == {"c1"}
\* the options bags (documentType, tone) of the invocations
QueryOptions == {[documentType |-> Undef, tone |-> Undef],
                 [documentType |-> "NDA", tone |-> "casual"]}
\* the message argument: absent, the empty string, or a query
MessageInputs == {[given |-> FALSE, text |-> <<>>],
                  [given |-> TRUE, text |-> <<>>],
                  [given |-> TRUE, text |-> <<"What is indemnity?">>]}
\* the error message a failing attempt of a model ends with
ProviderError(model) == <<"request failed for ", model>>
\* responses the provider can give to the classification request
ClassifyTexts == {<<"{", "type=analyze", "confidence=50", "}">>,
                  <<"prose", "{", "type=ClauseGeneration", "clauseType=indemnity", "}", "prose">>,
                  <<"{", "}">>,
                  <<"null">>,
                  <<"prose">>,
                  <<"prose", "{", "prose", "}">>,
                  <<"}", "type=adjust", "{">>,
                  <<"{", "type=constructor", "}">>}
\* responses the provider can give to the answer request
GenTexts == {<<>>,
             <<"Consider", " ", "Section 12", "\n", "prose">>}

\* ------------------------------------------------------------ APIError
\* src/src/utils/apiError.js: constructor(message, status)
APIError(message, status) ==
    [isAPIError |-> TRUE, message |-> message, status |-> status]

\* a plain Error(message)
PlainError(message) ==
    [isAPIError |-> FALSE, message |-> message, status |-> <<>>]

NoError == [isAPIError |-> FALSE, message |-> <<"no error">>, status |-> <<>>]

\* !value for a string-valued option
Falsy(v) == v = Undef \/ v = ""

\* a check for an absent message only
MessageAbsent(m) == ~m.given

\* !message
MessageMissing(m) == ~m.given \/ m.text = <<>>

\* ------------------------------------------------------ JSON.parse, regex
IsField(tok) == tok \in {"type=analyze", "type=ClauseGeneration", "type=adjust",
                         "type=constructor", "clauseType=indemnity", "confidence=50"}

FieldName(tok) ==
    CASE tok \in {"type=analyze", "type=ClauseGeneration", "type=adjust",
                  "type=constructor"} -> "type"
      [] tok = "clauseType=indemnity" -> "clauseType"
      [] tok = "confidence=50" -> "confidence"
      [] OTHER -> "none"

FieldString(tok) ==
    CASE tok = "type=analyze" -> "analyze"
      [] tok = "type=ClauseGeneration" -> "ClauseGeneration"
      [] tok = "type=adjust" -> "adjust"
      [] tok = "type=constructor" -> "constructor"
      [] tok = "clauseType=indemnity" -> "indemnity"
      [] OTHER -> Undef

FieldNumber(tok) == IF tok = "confidence=50" THEN 50 ELSE NoNumber

\* indices of the tokens of text that set the field name
FieldIdx(text, name) == {i \in 1..Len(text) : FieldName(text[i]) = name}

Max(S) == CHOOSE x \in S : \A y \in S : y <= x
Min(S) == CHOOSE x \in S : \A y \in S : x <= y

\* JSON.parse(text): a SyntaxError (ok = FALSE), null, or an object
JSONParse(text) ==
    IF text = <<"null">>
    THEN [ok |-> TRUE, isNull |-> TRUE, type |-> Undef, clauseType |-> Undef, confidence |-> NoNumber]
    ELSE IF /\ Len(text) >= 2
            /\ text[1] = "{"
            /\ text[Len(text)] = "}"
            /\ \A i \in 2..(Len(text) - 1) : IsField(text[i])
    THEN [ok |-> TRUE, isNull |-> FALSE,
          type |-> IF FieldIdx(text, "type") = {} THEN Undef
                   ELSE FieldString(text[Max(FieldIdx(text, "type"))]),
          clauseType |-> IF FieldIdx(text, "clauseType") = {} THEN Undef
                         ELSE FieldString(text[Max(FieldIdx(text, "clauseType"))]),
          confidence |-> IF FieldIdx(text, "confidence") = {} THEN NoNumber
                         ELSE FieldNumber(text[Max(FieldIdx(text, "confidence"))])]
    ELSE [ok |-> FALSE, isNull |-> FALSE, type |-> Undef, clauseType |-> Undef, confidence |-> NoNumber]

\* responseText.match(/\{[\s\S]*\}/): leftmost "{", greedy up to the last "}"
BraceMatch(text) ==
    LET opens == {i \in 1..Len(text) : text[i] = "{"}
        closes == {i \in 1..Len(text) : text[i] = "}"}
    IN IF opens # {} /\ closes # {} /\ Min(opens) < Max(closes)
       THEN [found |-> TRUE, text |-> SubSeq(text, Min(opens), Max(closes))]
       ELSE [found |-> FALSE, text |-> <<>>]

\* ---------------------------------------------------------- analyzeIntent
DefaultIntent == [type |-> "general", clauseType |-> Undef, confidence |-> DefaultConfidence]

\* lines 308-326: the intent built from the classifier's response text;
\* threw = TRUE when the try block ends in an exception
ParseIntent(responseText) ==
    LET direct == JSONParse(responseText)
        m == BraceMatch(responseText)
        inner == JSONParse(m.text)
        result == IF direct.ok THEN direct ELSE inner
        threw == \/ ~direct.ok /\ ~m.found
                 \/ ~direct.ok /\ m.found /\ ~inner.ok
                 \/ result.isNull
    IN [threw |-> threw,
        intent |-> [type |-> IF Falsy(result.type) THEN "general" ELSE result.type,
                    clauseType |-> result.clauseType,
                    confidence |-> IF result.confidence = NoNumber \/ result.confidence = 0
                                   THEN DefaultConfidence ELSE result.confidence]]

\* analyzeIntent without its outer catch for a response that cannot be parsed
analyzeIntentThrows(call) ==
    IF call.status = "ok" /\ ~ParseIntent(call.ret.text).threw
    THEN [threw |-> FALSE, intent |-> ParseIntent(call.ret.text).intent]
    ELSE [threw |-> call.status = "ok", intent |-> DefaultIntent]

\* lines 300-333: call is the finished adapter call
analyzeIntent(call) ==
    IF call.status = "ok" /\ ~ParseIntent(call.ret.text).threw
    THEN [threw |-> FALSE, intent |-> ParseIntent(call.ret.text).intent]
    ELSE [threw |-> FALSE, intent |-> DefaultIntent]

\* ------------------------------------------------- mapIntentToMetadataType
\* typeMap is an object literal: a lookup by a name it does not define goes
\* on to Object.prototype, whose properties are functions
ObjectPrototypeKeys == {"constructor", "toString", "toLocaleString", "valueOf",
                        "hasOwnProperty", "isPrototypeOf", "propertyIsEnumerable"}

\* the (truthy, non-string) value of such a property
Inherited(key) == "[Function: " \o key \o "]"

\* lines 386-401 and the lookup typeMap[intentType] of line 403
typeMap(intentType) ==
    CASE intentType = "summarize" -> "summarize"
      [] intentType = "explain" -> "explain"
      [] intentType = "analyze" -> "analyze"
      [] intentType = "suggest" -> "suggest"
      [] intentType = "adjust" -> "adjust"
      [] intentType = "InformationRequest" -> "chat"
      [] intentType = "ClarificationRequest" -> "chat"
      [] intentType = "GeneralQuery" -> "chat"
      [] intentType = "LegalAdvice" -> "chat"
      [] intentType = "DocumentReview" -> "analyze"
      [] intentType = "RiskAssessment" -> "analyze"
      [] intentType = "ComplianceCheck" -> "analyze"
      [] intentType = "ClauseGeneration" -> "suggest"
      [] intentType = "ToneAdjustment" -> "adjust"
      [] intentType \in ObjectPrototypeKeys -> Inherited(intentType)
      [] OTHER -> Undef

mapIntentToMetadataType(intentType) ==
    IF Falsy(typeMap(intentType)) THEN "chat" ELSE typeMap(intentType)

\* ---------------------------------------------------- prepareSystemMessage
prepareSystemMessage(intent, documentType, tone) ==
    LET base == <<"You are a legal document assistant. ">>
        clause ==
            CASE intent.type = "summarize" ->
                    <<"Summarize the following text in a clear and concise manner.">>
              [] intent.type = "explain" ->
                    <<"Explain the following legal terms and concepts in plain English.">>
              [] intent.type = "analyze" ->
                    <<"Analyze the following text for potential risks, missing clauses, and enforceability concerns.">>
              [] intent.type = "suggest" ->
                    <<"Suggest appropriate ", intent.clauseType, " clauses based on the following context.">>
              [] intent.type = "adjust" ->
                    <<"Rewrite the following text in a ", IF Falsy(tone) THEN "formal" ELSE tone,
                      " tone while maintaining its legal meaning.">>
              [] OTHER ->
                    <<"Provide clear, accurate, and helpful legal information.">>
        doc == IF Falsy(documentType) THEN <<>>
               ELSE <<" The context is about a ", documentType, ".">>
        toneS == IF Falsy(tone) THEN <<>>
                 ELSE <<" Use a ", tone, " tone in your response.">>
    IN base \o clause \o doc \o toneS

\* ------------------------------------------------------ post-processing
\* text.split(/\r?\n/)
RECURSIVE SplitLines(_)
SplitLines(text) ==
    LET nl == {i \in 1..Len(text) : text[i] \in {"\n", "\r\n"}}
    IN IF nl = {} THEN <<text>>
       ELSE <<SubSeq(text, 1, Min(nl) - 1)>> \o SplitLines(SubSeq(text, Min(nl) + 1, Len(text)))

\* line.trim()
RECURSIVE Trim(_)
Trim(line) ==
    IF line = <<>> THEN line
    ELSE IF line[1] = " " THEN Trim(Tail(line))
    ELSE IF line[Len(line)] = " " THEN Trim(SubSeq(line, 1, Len(line) - 1))
    ELSE line

actionVerbs == <<"Consider", "Ensure", "Review", "Verify", "Confirm", "Add",
                 "Remove", "Update", "Check", "Include", "Exclude">>

\* the characters of token tok begin with those of verb
BeginsWith(tok, verb) == tok = verb \/ (tok = "Addendum" /\ verb = "Add")

\* line.startsWith(verb): the first token of the line begins with the verb
StartsWith(line, verb) == line # <<>> /\ BeginsWith(line[1], verb)

RECURSIVE SuggestionsOf(_)
SuggestionsOf(lines) ==
    IF lines = <<>> THEN <<>>
    ELSE (IF \E v \in 1..Len(actionVerbs) : StartsWith(Trim(Head(lines)), actionVerbs[v])
          THEN <<Trim(Head(lines))>> ELSE <<>>) \o SuggestionsOf(Tail(lines))

\* suggestions taken from the text as one line
extractSuggestionsOneLine(text) ==
    IF text = <<>> THEN <<>> ELSE SuggestionsOf(<<text>>)

\* lines 354-382, for a string text
extractSuggestions(text) ==
    IF text = <<>> THEN <<>> ELSE SuggestionsOf(SplitLines(text))

\* line 357: any argument; arg.kind is its JavaScript type
extractSuggestionsOfValue(arg) ==
    IF arg.kind # "string" THEN <<>> ELSE extractSuggestions(arg.text)

\* tokens matched by sectionRegex, caseRegex, actRegex
SectionTokens == {"Section 12"}
CaseTokens == {"Smith v. Jones"}
ActTokens == {"Contract Act"}

RECURSIVE Keep(_, _)
Keep(text, S) ==
    IF text = <<>> THEN <<>>
    ELSE (IF Head(text) \in S THEN <<Head(text)>> ELSE <<>>) \o Keep(Tail(text), S)

\* [...new Set(seq)]: first occurrences, in order
RECURSIVE Unique(_)
Unique(seq) ==
    IF seq = <<>> THEN <<>>
    ELSE LET front == Unique(SubSeq(seq, 1, Len(seq) - 1))
             last == seq[Len(seq)]
         IN IF \E i \in 1..Len(front) : front[i] = last THEN front ELSE Append(front, last)

extractReferences(text) ==
    IF text = <<>> THEN <<>>
    ELSE Unique(Keep(text, SectionTokens) \o Keep(text, CaseTokens) \o Keep(text, ActTokens))

\* ------------------------------------------------------------------ state
VARIABLES
    configured,   \* googleAI is non-null (part_001 line 7)
    store,        \* the Conversation collection: id -> document
    q,            \* per caller: the locals of its processLegalQuery invocation
    crud,         \* the last call of a conversation operation and how it ended
    contract,     \* a ContractConversation document (its history)
    chat,         \* a generateWithChatHistory call made with that history
    probe,        \* the last call of a text function: its arguments and result
    cache,        \* the AI response cache: prompt -> entry
    gen,          \* a generateContent call
    health        \* a checkAll call of the third-party health service

vars == <<configured, store, q, crud, contract, chat, probe, cache, gen, health>>

Procs == {"p1", "p2"}

NoConv == [exists |-> FALSE, userId |-> Undef, title |-> Undef, status |-> Undef, messages |-> <<>>]

NoCall == [op |-> "none", k |-> 1, log |-> <<>>, status |-> "none", text |-> <<>>,
           err |-> NoError, prompt |-> <<>>, systemPrompt |-> <<>>,
           history |-> <<>>, chatHistory |-> <<>>, ret |-> [text |-> <<>>],
           options |-> [temperature |-> Undef, maxTokens |-> Undef]]

NoIntent == [type |-> Undef, clauseType |-> Undef, confidence |-> NoNumber]

NoMetadata == [type |-> Undef]

NoResult == [returned |-> FALSE, text |-> <<>>, metadata |-> NoMetadata]

IdleQ == [pc |-> "idle",
          message |-> [given |-> FALSE, text |-> <<>>],
          conversationId |-> Undef, userId |-> Undef, documentType |-> Undef, tone |-> Undef,
          intent |-> NoIntent, metadataType |-> Undef, systemMessage |-> <<>>,
          history |-> <<>>, call |-> NoCall,
          aiResponse |-> <<>>, responseTime |-> 0, metadata |-> NoMetadata,
          result |-> NoResult, error |-> NoError,
          raised |-> NoError, failStep |-> "none",
          appended |-> <<>>, adapterCalls |-> 0, attempts |-> 0, storeOps |-> 0]

\* no conversation operation has been called yet
NoCrud == [op |-> "none", conversationId |-> Undef, userId |-> Undef, title |-> Undef,
           fault |-> "none", error |-> NoError, returned |-> {}]

\* no text function has been called yet
NoProbe == [fn |-> "none", intent |-> NoIntent, documentType |-> Undef, tone |-> Undef,
            arg |-> [kind |-> "undefined", text |-> <<>>], result |-> <<>>]

\* the prompts of the generateContent requests
CachePrompts == {<<"Suggest a payment clause">>, <<"Rewrite section 2">>}

\* no cached response
NoEntry == [present |-> FALSE, response |-> <<>>, systemPrompt |-> <<>>]

\* no generateContent call is in progress
NoGen == [pc |-> "idle", prompt |-> <<>>, systemPrompt |-> <<>>, call |-> NoCall,
          fromCache |-> FALSE, entry |-> NoEntry, response |-> <<>>, err |-> NoError]

\* part_000 lines 287-293: the names allChecks defines, in the order of
\* Object.keys
allChecks == <<"googleAI", "database", "email", "cloudinary", "razorpay">>

\* the names a caller can ask for: two with a check, one with none, and one
\* that Object.prototype defines
RequestedNames == {"database", "email", "billing", "constructor"}

\* the names results.services can get as keys
ServiceKeys == {allChecks[i] : i \in 1..Len(allChecks)} \cup RequestedNames

\* results.services has no such key
Absent == "absent"

\* no checkAll call has been made
NoHealth == [pc |-> "idle", servicesToCheck |-> <<>>, pending |-> {},
             services |-> [n \in ServiceKeys |-> Absent], overall |-> Undef,
             summary |-> [total |-> 0, healthy |-> 0, unhealthy |-> 0, notConfigured |-> 0]]

Init ==
    /\ health = NoHealth
    /\ configured \in BOOLEAN
    /\ store = [c \in ConvIds |-> NoConv]
    /\ q = [p \in Procs |-> IdleQ]
    /\ crud = NoCrud
    /\ contract = [history |-> <<>>]
    /\ chat = NoCall
    /\ probe = NoProbe
    /\ cache = [p \in CachePrompts |-> NoEntry]
    /\ gen = NoGen

\* ------------------------------------------------------ adapter (part_001)
\* what the provider can answer to an attempt of model: a text or an error
Outcomes(texts, model) ==
    {[ok |-> TRUE, text |-> t, err |-> NoError] : t \in texts}
    \cup {[ok |-> FALSE, text |-> <<>>, err |-> PlainError(ProviderError(model))]}

\* a conversion that maps the roles but keeps the system entries
chatHistoryOfKeepsSystem(history) ==
    LET RECURSIVE conv(_)
        conv(h) == IF h = <<>> THEN <<>>
                   ELSE <<[role |-> IF Head(h).role = "user" THEN "user" ELSE "model",
                           parts |-> <<[text |-> Head(h).parts]>>]>> \o conv(Tail(h))
    IN conv(history)

\* lines 76-81: history converted to the provider's format
chatHistoryOf(history) ==
    LET RECURSIVE conv(_)
        conv(h) == IF h = <<>> THEN <<>>
                   ELSE (IF Head(h).role # "system"
                         THEN <<[role |-> IF Head(h).role = "user" THEN "user" ELSE "model",
                                 parts |-> <<[text |-> Head(h).parts]>>]>>
                         ELSE <<>>) \o conv(Tail(h))
    IN conv(history)

\* lines 22-25 and 61-66: entry of generateWithGoogleAI / generateWithChatHistory
EnterCall(op, prompt, history, systemPrompt) ==
    IF ~configured
    THEN [NoCall EXCEPT !.op = op, !.status = "threw", !.prompt = prompt,
                        !.systemPrompt = systemPrompt, !.history = history,
                        !.err = PlainError(<<"Google AI not configured">>)]
    ELSE [NoCall EXCEPT !.op = op, !.status = "running", !.prompt = prompt,
                        !.systemPrompt = systemPrompt, !.history = history]

\* an updated history that lacks the new user turn
ReturnedModelTurnOnly(call, responseText) ==
    IF call.op = "history"
    THEN [text |-> responseText,
          history |-> call.history \o <<[role |-> "model", parts |-> responseText]>>]
    ELSE [text |-> responseText]

\* lines 42 and 94-101: the value the adapter operation returns
Returned(call, responseText) ==
    IF call.op = "history"
    THEN [text |-> responseText,
          history |-> call.history \o <<[role |-> "user", parts |-> call.prompt],
                                         [role |-> "model", parts |-> responseText]>>]
    ELSE [text |-> responseText]

\* the loop that goes on to the next model after a success
AttemptGoesOn(call, outcome) ==
    LET entry == [model |-> modelNames[call.k], ok |-> outcome.ok,
                  text |-> outcome.text, err |-> outcome.err]
        c == IF outcome.ok
             THEN [call EXCEPT !.log = Append(@, entry), !.text = outcome.text,
                               !.ret = Returned(call, outcome.text)]
             ELSE [call EXCEPT !.log = Append(@, entry)]
    IN IF call.k < Len(modelNames) THEN [c EXCEPT !.k = @ + 1]
       ELSE IF \E i \in 1..Len(c.log) : c.log[i].ok THEN [c EXCEPT !.status = "ok"]
       ELSE [c EXCEPT !.status = "threw", !.err = PlainError(<<"All Google AI models failed">>)]

\* a loop that asks the same model again after a failure
AttemptSameModel(call, outcome) ==
    LET entry == [model |-> modelNames[call.k], ok |-> outcome.ok,
                  text |-> outcome.text, err |-> outcome.err]
    IN IF outcome.ok
       THEN [call EXCEPT !.log = Append(@, entry), !.status = "ok", !.text = outcome.text,
                         !.chatHistory = IF call.op = "history" THEN chatHistoryOf(call.history) ELSE <<>>,
                         !.ret = Returned(call, outcome.text)]
       ELSE IF Len(call.log) < Len(modelNames)
       THEN [call EXCEPT !.log = Append(@, entry)]
       ELSE [call EXCEPT !.log = Append(@, entry), !.status = "threw",
                         !.err = PlainError(<<"All Google AI models failed">>)]

\* lines 30-51 and 68-108: one pass of the for loop over modelNames
Attempt(call, outcome) ==
    LET entry == [model |-> modelNames[call.k], ok |-> outcome.ok,
                  text |-> outcome.text, err |-> outcome.err]
    IN IF outcome.ok
       THEN [call EXCEPT !.log = Append(@, entry), !.status = "ok", !.text = outcome.text,
                         !.chatHistory = IF call.op = "history" THEN chatHistoryOf(call.history) ELSE <<>>,
                         !.ret = Returned(call, outcome.text)]
       ELSE IF call.k < Len(modelNames)
       THEN [call EXCEPT !.log = Append(@, entry), !.k = @ + 1]
       ELSE [call EXCEPT !.log = Append(@, entry), !.status = "threw",
                         !.err = PlainError(<<"All Google AI models failed">>)]

\* ------------------------------------------------ conversation store reads
\* a find without the status filter
findOneAnyStatus(st, conversationId, userId) ==
    /\ conversationId \in DOMAIN st
    /\ st[conversationId].exists
    /\ st[conversationId].userId = userId

\* a find without the owner filter
findOneAnyOwner(st, conversationId, userId) ==
    /\ conversationId \in DOMAIN st
    /\ st[conversationId].exists
    /\ st[conversationId].status # "deleted"

\* Conversation.findOne({_id, userId, status: {$ne: 'deleted'}})
findOne(st, conversationId, userId) ==
    /\ conversationId \in DOMAIN st
    /\ st[conversationId].exists
    /\ st[conversationId].userId = userId
    /\ st[conversationId].status # "deleted"

\* lines 40-66; dbFail: the driver throws
getConversation(st, conversationId, userId, dbFail) ==
    IF Falsy(conversationId) THEN APIError(<<"Conversation ID is required">>, BAD_REQUEST)
    ELSE IF Falsy(userId) THEN APIError(<<"User ID is required">>, BAD_REQUEST)
    ELSE IF dbFail THEN APIError(<<"Error getting conversation: ", "store failure">>, INTERNAL_SERVER_ERROR)
    ELSE IF ~findOne(st, conversationId, userId) THEN APIError(<<"Conversation not found">>, NOT_FOUND)
    ELSE NoError

\* lines 107-118: the argument checks of addMessage
addMessageCheck(conversationId, userId, role, content) ==
    IF Falsy(conversationId) THEN APIError(<<"Conversation ID is required">>, BAD_REQUEST)
    ELSE IF Falsy(userId) THEN APIError(<<"User ID is required">>, BAD_REQUEST)
    ELSE IF Falsy(role) THEN APIError(<<"Message role is required">>, BAD_REQUEST)
    ELSE IF content = <<>> THEN APIError(<<"Message content is required">>, BAD_REQUEST)
    ELSE NoError

\* lines 120-123
metadataWithType(role, metadata) ==
    IF Falsy(metadata.type)
    THEN [metadata EXCEPT !.type = IF role = "system" THEN "system" ELSE "chat"]
    ELSE metadata

\* conversation.addMessage(role, content, metadata): push and save
ConversationAddMessage(st, conversationId, role, content, metadata, by) ==
    [st EXCEPT ![conversationId].messages =
        Append(@, [role |-> role, content |-> content, metadata |-> metadata, by |-> by])]

\* ------------------------------------------------------ processLegalQuery
\* lines 233-235
InnerCatch(err) ==
    APIError(<<"Error processing legal query: ">> \o err.message, INTERNAL_SERVER_ERROR)

\* lines 258-263
OuterCatch(err) ==
    IF err.isAPIError THEN err
    ELSE APIError(<<"Error processing legal query: ">> \o err.message, INTERNAL_SERVER_ERROR)

\* the invocation of p ends with error err, raised at step as raisedErr
Fail(p, step, raisedErr, err) ==
    [q[p] EXCEPT !.pc = "failed", !.failStep = step, !.raised = raisedErr, !.error = err,
                 !.call = NoCall]

BothIds(r) == ~Falsy(r.conversationId) /\ ~Falsy(r.userId)

\* conversation c can take n more messages within MaxMsgs
RoomFor(c, n) == c \in ConvIds => Len(store[c].messages) + n <= MaxMsgs

\* an entry that leaves the classification out and goes on to the history
BeginSkipsClassify(p) ==
    /\ q[p].pc = "idle"
    /\ \E m \in MessageInputs, c \in ConvIds \cup {Undef}, u \in Users \cup {Undef},
          o \in QueryOptions :
        LET r == [IdleQ EXCEPT !.message = m, !.conversationId = c, !.userId = u,
                               !.documentType = o.documentType, !.tone = o.tone]
            e == APIError(<<"Message is required">>, BAD_REQUEST)
        IN /\ RoomFor(c, 2)
           /\ q' = [q EXCEPT ![p] =
                    IF MessageMissing(m)
                    THEN [r EXCEPT !.pc = "failed", !.failStep = "validate",
                                   !.raised = e, !.error = OuterCatch(e)]
                    ELSE [r EXCEPT !.pc = "load", !.intent = DefaultIntent,
                                   !.metadataType = mapIntentToMetadataType(DefaultIntent.type),
                                   !.systemMessage = prepareSystemMessage(DefaultIntent, o.documentType, o.tone)]]
    /\ UNCHANGED <<configured, store, crud, contract, chat, probe, cache, gen, health>>

\* lines 178-188: entry, the message check, and the start of analyzeIntent
Begin(p) ==
    /\ q[p].pc = "idle"
    /\ \E m \in MessageInputs, c \in ConvIds \cup {Undef}, u \in Users \cup {Undef},
          o \in QueryOptions :
        LET r == [IdleQ EXCEPT !.message = m, !.conversationId = c, !.userId = u,
                               !.documentType = o.documentType, !.tone = o.tone]
            e == APIError(<<"Message is required">>, BAD_REQUEST)
        IN /\ RoomFor(c, 2)
           /\ q' = [q EXCEPT ![p] =
                    IF MessageMissing(m)
                    THEN [r EXCEPT !.pc = "failed", !.failStep = "validate",
                                   !.raised = e, !.error = OuterCatch(e)]
                    ELSE [r EXCEPT !.pc = "classify", !.adapterCalls = 1,
                                   !.call = [EnterCall("single", m.text, <<>>,
                                       <<"Analyze this legal query and determine the intent. Return a JSON object with type and confidence.">>)
                                             EXCEPT !.options = [temperature |-> "0.3", maxTokens |-> 500]]]]
    /\ UNCHANGED <<configured, store, crud, contract, chat, probe, cache, gen, health>>

\* one model attempt of the classification call
ClassifyAttempt(p) ==
    /\ q[p].pc = "classify"
    /\ q[p].call.status = "running"
    /\ \E o \in Outcomes(ClassifyTexts, modelNames[q[p].call.k]) :
        q' = [q EXCEPT ![p].call = Attempt(@, o), ![p].attempts = @ + 1]
    /\ UNCHANGED <<configured, store, crud, contract, chat, probe, cache, gen, health>>

\* lines 188-194: analyzeIntent returns; metadata type and system message
ClassifyDone(p) ==
    /\ q[p].pc = "classify"
    /\ q[p].call.status # "running"
    /\ LET a == analyzeIntent(q[p].call)
           e == PlainError(<<"Invalid response format">>)
       IN q' = [q EXCEPT ![p] =
                   IF a.threw
                   THEN Fail(p, "classify", e, OuterCatch(e))
                   ELSE [q[p] EXCEPT !.pc = "load", !.intent = a.intent,
                                     !.metadataType = mapIntentToMetadataType(a.intent.type),
                                     !.systemMessage = prepareSystemMessage(a.intent, q[p].documentType, q[p].tone)]]
    /\ UNCHANGED <<configured, store, crud, contract, chat, probe, cache, gen, health>>

\* a history formatted newest turn first
formatHistoryNewestFirst(messages) ==
    LET RECURSIVE conv(_)
        conv(ms) == IF ms = <<>> THEN <<>>
                    ELSE conv(Tail(ms)) \o
                         (IF Head(ms).role # "system"
                          THEN <<[role |-> IF Head(ms).role = "user" THEN "user" ELSE "model",
                                  parts |-> Head(ms).content]>>
                          ELSE <<>>)
    IN conv(messages)

\* lines 208-213
formatHistory(messages) ==
    LET RECURSIVE conv(_)
        conv(ms) == IF ms = <<>> THEN <<>>
                    ELSE (IF Head(ms).role # "system"
                          THEN <<[role |-> IF Head(ms).role = "user" THEN "user" ELSE "model",
                                  parts |-> Head(ms).content]>>
                          ELSE <<>>) \o conv(Tail(ms))
    IN conv(messages)

\* a choice that takes the single-turn operation whatever the history
StartGenerationSingleTurn(r, history) ==
    [r EXCEPT !.pc = "generate", !.history = history,
              !.adapterCalls = @ + 1,
              !.call = [EnterCall("single", r.message.text, <<>>, r.systemMessage)
                        EXCEPT !.options = [temperature |-> "0.7", maxTokens |-> 1000]]]

\* lines 217-231: the adapter operation chosen for the answer
StartGeneration(r, history) ==
    [r EXCEPT !.pc = "generate", !.history = history,
              !.adapterCalls = @ + 1,
              !.call = IF Len(history) > 0
                       THEN [EnterCall("history", r.message.text, history, r.systemMessage)
                             EXCEPT !.options = [temperature |-> "0.7", maxTokens |-> Undef]]
                       ELSE [EnterCall("single", r.message.text, <<>>, r.systemMessage)
                             EXCEPT !.options = [temperature |-> "0.7", maxTokens |-> 1000]]]

\* a history load that saves the user's turn before the answer is generated
LoadHistorySavesTurn(p) ==
    /\ q[p].pc = "load"
    /\ IF BothIds(q[p])
       THEN \E dbFail \in BOOLEAN :
            LET e == getConversation(store, q[p].conversationId, q[p].userId, dbFail)
                r == [q[p] EXCEPT !.storeOps = @ + 1]
            IN IF e # NoError
               THEN /\ q' = [q EXCEPT ![p] =
                                [r EXCEPT !.pc = "failed", !.failStep = "history",
                                          !.raised = e, !.error = OuterCatch(InnerCatch(e))]]
                    /\ UNCHANGED store
               ELSE /\ q' = [q EXCEPT ![p] =
                                StartGeneration(r, formatHistory(store[q[p].conversationId].messages))]
                    /\ store' = ConversationAddMessage(store, q[p].conversationId, "user",
                                                       q[p].message.text, [type |-> q[p].metadataType], p)
       ELSE /\ q' = [q EXCEPT ![p] = StartGeneration(q[p], <<>>)]
            /\ UNCHANGED store
    /\ UNCHANGED <<configured, crud, contract, chat, probe, cache, gen, health>>

\* a history load guarded by the conversation id alone
LoadHistoryByIdAlone(p) ==
    /\ q[p].pc = "load"
    /\ IF ~Falsy(q[p].conversationId)
       THEN \E dbFail \in BOOLEAN :
            LET e == getConversation(store, q[p].conversationId, store[q[p].conversationId].userId, dbFail)
                r == [q[p] EXCEPT !.storeOps = @ + 1]
            IN q' = [q EXCEPT ![p] =
                        IF e # NoError
                        THEN [r EXCEPT !.pc = "failed", !.failStep = "history",
                                       !.raised = e, !.error = OuterCatch(InnerCatch(e))]
                        ELSE StartGeneration(r, formatHistory(store[q[p].conversationId].messages))]
       ELSE q' = [q EXCEPT ![p] = StartGeneration(q[p], <<>>)]
    /\ UNCHANGED <<configured, store, crud, contract, chat, probe, cache, gen, health>>

\* lines 201-231: load the history, start the generation
LoadHistory(p) ==
    /\ q[p].pc = "load"
    /\ IF BothIds(q[p])
       THEN \E dbFail \in BOOLEAN :
            LET e == getConversation(store, q[p].conversationId, q[p].userId, dbFail)
                r == [q[p] EXCEPT !.storeOps = @ + 1]
            IN q' = [q EXCEPT ![p] =
                        IF e # NoError
                        THEN [r EXCEPT !.pc = "failed", !.failStep = "history",
                                       !.raised = e, !.error = OuterCatch(InnerCatch(e))]
                        ELSE StartGeneration(r, formatHistory(store[q[p].conversationId].messages))]
       ELSE q' = [q EXCEPT ![p] = StartGeneration(q[p], <<>>)]
    /\ UNCHANGED <<configured, store, crud, contract, chat, probe, cache, gen, health>>

\* one model attempt of the answer call
GenerateAttempt(p) ==
    /\ q[p].pc = "generate"
    /\ q[p].call.status = "running"
    /\ \E o \in Outcomes(GenTexts, modelNames[q[p].call.k]) :
        q' = [q EXCEPT ![p].call = Attempt(@, o), ![p].attempts = @ + 1]
    /\ UNCHANGED <<configured, store, crud, contract, chat, probe, cache, gen, health>>

\* metadata whose provider field names the first model of the list
buildMetadataNamesModel(r, aiResponse, responseTime) ==
    [type |-> r.metadataType, documentType |-> r.documentType, tone |-> r.tone,
     responseTime |-> responseTime,
     references |-> extractReferences(aiResponse),
     suggestions |-> extractSuggestions(aiResponse),
     provider |-> modelNames[1]]

\* lines 237-246
buildMetadata(r, aiResponse, responseTime) ==
    [type |-> r.metadataType, documentType |-> r.documentType, tone |-> r.tone,
     responseTime |-> responseTime,
     references |-> extractReferences(aiResponse),
     suggestions |-> extractSuggestions(aiResponse),
     provider |-> usedProvider]

\* lines 223-257: the adapter call returns or throws
GenerateDone(p) ==
    /\ q[p].pc = "generate"
    /\ q[p].call.status # "running"
    /\ IF q[p].call.status = "threw"
       THEN q' = [q EXCEPT ![p] = Fail(p, "generate", q[p].call.err,
                                       OuterCatch(InnerCatch(q[p].call.err)))]
       ELSE \E t \in 0..MaxElapsed :
            LET md == buildMetadata(q[p], q[p].call.ret.text, t)
                r == [q[p] EXCEPT !.aiResponse = q[p].call.ret.text, !.responseTime = t,
                                  !.metadata = md, !.call = NoCall]
            IN q' = [q EXCEPT ![p] =
                        IF BothIds(r)
                        THEN [r EXCEPT !.pc = "addUserGet"]
                        ELSE [r EXCEPT !.pc = "done",
                                       !.result = [returned |-> TRUE, text |-> r.aiResponse,
                                                   metadata |-> md]]]
    /\ UNCHANGED <<configured, store, crud, contract, chat, probe, cache, gen, health>>

\* lines 105-125 of addMessage, called from line 250 or 251
AddGet(p, here, next, role, content) ==
    /\ q[p].pc = here
    /\ \E dbFail \in BOOLEAN :
        LET v == addMessageCheck(q[p].conversationId, q[p].userId, role, content)
            e == getConversation(store, q[p].conversationId, q[p].userId, dbFail)
        IN q' = [q EXCEPT ![p] =
                    IF v # NoError THEN Fail(p, here, v, OuterCatch(v))
                    ELSE IF e # NoError
                    THEN [Fail(p, here, e, OuterCatch(e)) EXCEPT !.storeOps = @ + 1]
                    ELSE [q[p] EXCEPT !.pc = next, !.storeOps = @ + 1]]
    /\ UNCHANGED <<configured, store, crud, contract, chat, probe, cache, gen, health>>

\* a save whose failure is logged and swallowed: the caller goes on
AddSaveSwallows(p, here, next, role, content, metadata) ==
    /\ q[p].pc = here
    /\ \E saveFail \in BOOLEAN :
        LET e == APIError(<<"Error adding message: ", "store failure">>, INTERNAL_SERVER_ERROR)
            md == metadataWithType(role, metadata)
            st == ConversationAddMessage(store, q[p].conversationId, role, content, md, p)
            msgs == st[q[p].conversationId].messages
            res == IF next = "done"
                   THEN [returned |-> TRUE, text |-> q[p].aiResponse, metadata |-> q[p].metadata]
                   ELSE q[p].result
        IN IF saveFail
           THEN /\ q' = [q EXCEPT ![p] = [q[p] EXCEPT !.pc = next, !.storeOps = @ + 1,
                                                      !.failStep = here, !.raised = e,
                                                      !.result = res]]
                /\ UNCHANGED store
           ELSE /\ store' = st
                /\ q' = [q EXCEPT ![p] = [q[p] EXCEPT !.pc = next, !.storeOps = @ + 1,
                                                      !.appended = Append(@, msgs[Len(msgs)]),
                                                      !.result = res]]
    /\ UNCHANGED <<configured, crud, contract, chat, probe, cache, gen, health>>

\* lines 126-135 of addMessage: the document is saved, or the save throws
AddSave(p, here, next, role, content, metadata) ==
    /\ q[p].pc = here
    /\ \E saveFail \in BOOLEAN :
        LET e == APIError(<<"Error adding message: ", "store failure">>, INTERNAL_SERVER_ERROR)
            md == metadataWithType(role, metadata)
            st == ConversationAddMessage(store, q[p].conversationId, role, content, md, p)
            msgs == st[q[p].conversationId].messages
        IN IF saveFail
           THEN /\ q' = [q EXCEPT ![p] = [Fail(p, here, e, OuterCatch(e)) EXCEPT !.storeOps = @ + 1]]
                /\ UNCHANGED store
           ELSE /\ store' = st
                /\ q' = [q EXCEPT ![p] =
                            [q[p] EXCEPT !.pc = next, !.storeOps = @ + 1,
                                         !.appended = Append(@, msgs[Len(msgs)]),
                                         !.result = IF next = "done"
                                                    THEN [returned |-> TRUE, text |-> q[p].aiResponse,
                                                          metadata |-> q[p].metadata]
                                                    ELSE @]]
    /\ UNCHANGED <<configured, crud, contract, chat, probe, cache, gen, health>>

\* line 250
AddUserGet(p) ==
    AddGet(p, "addUserGet", "addUserSave", "user", q[p].message.text)

\* the user turn saved without its metadata argument
AddUserSaveNoType(p) ==
    AddSave(p, "addUserSave", "addAsstGet", "user", q[p].message.text, [type |-> Undef])

AddUserSave(p) ==
    AddSave(p, "addUserSave", "addAsstGet", "user", q[p].message.text, [type |-> q[p].metadataType])

\* line 251
AddAsstGet(p) ==
    AddGet(p, "addAsstGet", "addAsstSave", "assistant", q[p].aiResponse)

AddAsstSave(p) ==
    AddSave(p, "addAsstSave", "done", "assistant", q[p].aiResponse, q[p].metadata)

\* the caller has its result or error and the invocation is over; the
\* requests that follow it are those of the other callers
Return(p) ==
    /\ q[p].pc \in {"done", "failed"}
    /\ q' = [q EXCEPT ![p] = [IdleQ EXCEPT !.pc = "returned"]]
    /\ UNCHANGED <<configured, store, crud, contract, chat, probe, cache, gen, health>>

processLegalQuery(p) ==
    \/ Begin(p)
    \/ ClassifyAttempt(p)
    \/ ClassifyDone(p)
    \/ LoadHistory(p)
    \/ GenerateAttempt(p)
    \/ GenerateDone(p)
    \/ AddUserGet(p)
    \/ AddUserSave(p)
    \/ AddAsstGet(p)
    \/ AddAsstSave(p)
    \/ Return(p)

\* ----------------------------------------------- conversation operations
SeedMessage ==
    [role |-> "system",
     content |-> <<"You are a legal document assistant. You help users understand, analyze, and improve legal documents.">>,
     metadata |-> [type |-> "system"], by |-> "create"]

\* a conversation created without its seed message
createConversationNoSeed(st, conv, userId, title, saveFail) ==
    IF Falsy(userId)
    THEN [error |-> APIError(<<"User ID is required">>, BAD_REQUEST), store |-> st]
    ELSE IF Falsy(title)
    THEN [error |-> APIError(<<"Title is required">>, BAD_REQUEST), store |-> st]
    ELSE IF saveFail
    THEN [error |-> APIError(<<"Error creating conversation: ", "store failure">>, INTERNAL_SERVER_ERROR),
          store |-> st]
    ELSE [error |-> NoError,
          store |-> [st EXCEPT ![conv] = [exists |-> TRUE, userId |-> userId, title |-> title,
                                          status |-> "active", messages |-> <<>>]]]

\* lines 7-38; conv is the id the store gives the new document
createConversation(st, conv, userId, title, saveFail) ==
    IF Falsy(userId)
    THEN [error |-> APIError(<<"User ID is required">>, BAD_REQUEST), store |-> st]
    ELSE IF Falsy(title)
    THEN [error |-> APIError(<<"Title is required">>, BAD_REQUEST), store |-> st]
    ELSE IF saveFail
    THEN [error |-> APIError(<<"Error creating conversation: ", "store failure">>, INTERNAL_SERVER_ERROR),
          store |-> st]
    ELSE [error |-> NoError,
          store |-> [st EXCEPT ![conv] = [exists |-> TRUE, userId |-> userId, title |-> title,
                                          status |-> "active", messages |-> <<SeedMessage>>]]]

\* conversation.archive() / conversation.restore(): set the status and save
ConversationSetStatus(st, conversationId, status) ==
    [st EXCEPT ![conversationId].status = status]

\* lines 138-156 (archive) and 158-176 (restore): the same code but for the
\* status set and the text of the wrapping message
setStatus(st, conversationId, userId, status, wrapText, dbFail, saveFail) ==
    LET e == getConversation(st, conversationId, userId, dbFail)
    IN IF Falsy(conversationId)
       THEN [error |-> APIError(BAD_REQUEST, <<"Conversation ID is required">>), store |-> st]
       ELSE IF Falsy(userId)
       THEN [error |-> APIError(BAD_REQUEST, <<"User ID is required">>), store |-> st]
       ELSE IF e # NoError
       THEN [error |-> e, store |-> st]
       ELSE IF saveFail
       THEN [error |-> APIError(INTERNAL_SERVER_ERROR, <<wrapText, "store failure">>), store |-> st]
       ELSE [error |-> NoError, store |-> ConversationSetStatus(st, conversationId, status)]

archiveConversation(st, conversationId, userId, dbFail, saveFail) ==
    setStatus(st, conversationId, userId, "archived", "Error archiving conversation: ", dbFail, saveFail)

restoreConversation(st, conversationId, userId, dbFail, saveFail) ==
    setStatus(st, conversationId, userId, "active", "Error restoring conversation: ", dbFail, saveFail)

\* lines 105-136: addMessage as one call
addMessage(st, conversationId, userId, role, content, metadata, dbFail, saveFail, by) ==
    LET v == addMessageCheck(conversationId, userId, role, content)
        e == getConversation(st, conversationId, userId, dbFail)
    IN IF v # NoError THEN [error |-> v, store |-> st]
       ELSE IF e # NoError THEN [error |-> e, store |-> st]
       ELSE IF saveFail
       THEN [error |-> APIError(<<"Error adding message: ", "store failure">>, INTERNAL_SERVER_ERROR),
             store |-> st]
       ELSE [error |-> NoError,
             store |-> ConversationAddMessage(st, conversationId, role, content,
                                              metadataWithType(role, metadata), by)]

\* The store is shared with the other requests of the application.  Their
\* calls that fail leave the store as it is; the ones that succeed are the
\* following steps.  The owner of the conversations they make is "u1".
otherCreate ==
    \E conv \in ConvIds :
        LET r == createConversation(store, conv, "u1", "NDA review", FALSE)
        IN /\ ~store[conv].exists
           /\ r.error = NoError
           /\ store' = r.store
           /\ UNCHANGED <<configured, q, crud, contract, chat, probe, cache, gen, health>>

\* the soft delete done elsewhere in the application: the status flag is set
softDelete ==
    \E conv \in ConvIds :
        /\ store[conv].exists
        /\ store[conv].status # "deleted"
        /\ store' = ConversationSetStatus(store, conv, "deleted")
        /\ UNCHANGED <<configured, q, crud, contract, chat, probe, cache, gen, health>>

otherAddMessage ==
    \E conv \in ConvIds, role \in {"user", "assistant"} :
        LET r == addMessage(store, conv, store[conv].userId, role, <<"earlier turn">>,
                            [type |-> Undef], FALSE, FALSE, "other")
        IN /\ RoomFor(conv, 3)
           /\ r.error = NoError
           /\ store' = r.store
           /\ UNCHANGED <<configured, q, crud, contract, chat, probe, cache, gen, health>>

\* lines 68-103: the conversations of userId with the status asked for
\* (default 'active'); the one page of the default limit holds them all
getUserConversations(st, userId, status, dbFail) ==
    IF Falsy(userId)
    THEN [error |-> APIError(<<"User ID is required">>, BAD_REQUEST), conversations |-> {}]
    ELSE IF dbFail
    THEN [error |-> APIError(<<"Error getting user conversations: ", "store failure">>,
                             INTERNAL_SERVER_ERROR),
          conversations |-> {}]
    ELSE [error |-> NoError,
          conversations |-> {c \in DOMAIN st :
                                /\ st[c].exists
                                /\ st[c].userId = userId
                                /\ st[c].status = (IF status = Undef THEN "active" ELSE status)}]

\* ------------------------------------- calls of the conversation operations
\* the arguments a caller can pass
IdInputs == ConvIds \cup {Undef}
UserInputs == Users \cup {Undef}
TitleInputs == {"NDA review", Undef}
MessageArgs == {[role |-> "user", content |-> <<"earlier turn">>],
                [role |-> "assistant", content |-> <<"earlier turn">>],
                [role |-> Undef, content |-> <<"earlier turn">>],
                [role |-> "user", content |-> <<>>]}
StatusInputs == {Undef, "archived", "deleted"}

\* which store access of a call throws, if any: the find of getConversation
\* or the save of the document; a call that fails its argument checks makes
\* no access
Faults(reaches, accesses) == IF reaches THEN accesses \cup {"none"} ELSE {"none"}

\* createConversation(userId, title); conv is the id a successful save gets
CreateCall ==
    \E conv \in ConvIds, u \in UserInputs, t \in TitleInputs :
      \E fault \in Faults(~Falsy(u) /\ ~Falsy(t), {"save"}) :
        LET r == createConversation(store, conv, u, t, fault = "save")
        IN /\ ~store[conv].exists
           /\ store' = r.store
           /\ crud' = [op |-> "create", conversationId |-> conv, userId |-> u, title |-> t,
                       fault |-> fault, error |-> r.error,
                       returned |-> IF r.error = NoError THEN {conv} ELSE {}]
           /\ UNCHANGED <<configured, q, contract, chat, probe, cache, gen, health>>

\* getConversation(conversationId, userId)
GetCall ==
    \E c \in IdInputs, u \in UserInputs :
      \E fault \in Faults(~Falsy(c) /\ ~Falsy(u), {"find"}) :
        LET e == getConversation(store, c, u, fault = "find")
        IN /\ crud' = [op |-> "get", conversationId |-> c, userId |-> u, title |-> Undef,
                       fault |-> fault, error |-> e,
                       returned |-> IF e = NoError THEN {c} ELSE {}]
           /\ UNCHANGED <<configured, store, q, contract, chat, probe, cache, gen, health>>

\* getUserConversations(userId, {status})
ListCall ==
    \E u \in UserInputs, status \in StatusInputs :
      \E fault \in Faults(~Falsy(u), {"find"}) :
        LET r == getUserConversations(store, u, status, fault = "find")
        IN /\ crud' = [op |-> "list", conversationId |-> Undef, userId |-> u, title |-> Undef,
                       fault |-> fault, error |-> r.error,
                       returned |-> r.conversations, status |-> status]
           /\ UNCHANGED <<configured, store, q, contract, chat, probe, cache, gen, health>>

\* addMessage(conversationId, userId, role, content)
AddMessageCall ==
    \E c \in IdInputs, u \in UserInputs, m \in MessageArgs :
      \E fault \in Faults(addMessageCheck(c, u, m.role, m.content) = NoError,
                          {"find"} \cup (IF findOne(store, c, u) THEN {"save"} ELSE {})) :
        LET r == addMessage(store, c, u, m.role, m.content, [type |-> Undef],
                            fault = "find", fault = "save", "other")
        IN /\ RoomFor(c, 1)
           /\ store' = r.store
           /\ crud' = [op |-> "addMessage", conversationId |-> c, userId |-> u, title |-> Undef,
                       fault |-> fault, error |-> r.error,
                       returned |-> IF r.error = NoError THEN {c} ELSE {}]
           /\ UNCHANGED <<configured, q, contract, chat, probe, cache, gen, health>>

\* archiveConversation(conversationId, userId) / restoreConversation(...)
StatusCall(op) ==
    \E c \in IdInputs, u \in UserInputs :
      \E fault \in Faults(~Falsy(c) /\ ~Falsy(u),
                          {"find"} \cup (IF findOne(store, c, u) THEN {"save"} ELSE {})) :
        LET r == IF op = "archive"
                 THEN archiveConversation(store, c, u, fault = "find", fault = "save")
                 ELSE restoreConversation(store, c, u, fault = "find", fault = "save")
        IN /\ store' = r.store
           /\ crud' = [op |-> op, conversationId |-> c, userId |-> u, title |-> Undef,
                       fault |-> fault, error |-> r.error,
                       returned |-> IF r.error = NoError THEN {c} ELSE {}]
           /\ UNCHANGED <<configured, q, contract, chat, probe, cache, gen, health>>

ArchiveCall == StatusCall("archive")

RestoreCall == StatusCall("restore")

\* the last n entries of a sequence: Array.prototype.slice(-n)
LastN(seq, n) == IF Len(seq) <= n THEN seq ELSE SubSeq(seq, Len(seq) - n + 1, Len(seq))

\* part_001 lines 278-314: ContextService.getRelevantContext; the find
\* names _id and userId only, and every error ends in the empty list
getRelevantContext(st, userId, conversationId, recentLimit, dbFail) ==
    IF Falsy(userId) \/ Falsy(conversationId) THEN <<>>
    ELSE IF dbFail THEN <<>>
    ELSE IF ~(/\ conversationId \in DOMAIN st
              /\ st[conversationId].exists
              /\ st[conversationId].userId = userId) THEN <<>>
    ELSE LET turns == SelectSeq(st[conversationId].messages, LAMBDA m : m.role # "system")
             recent == LastN(turns, IF recentLimit = NoNumber THEN 5 ELSE recentLimit)
         IN [i \in 1..Len(recent) |-> [role |-> recent[i].role, content |-> recent[i].content]]

\* the recentLimit option: left out (NoNumber), or 1
LimitInputs == {NoNumber, 1}

\* getRelevantContext(queryText, {userId, conversationId, recentLimit})
ContextCall ==
    \E c \in IdInputs, u \in UserInputs, n \in LimitInputs :
      \E fault \in Faults(~Falsy(c) /\ ~Falsy(u), {"find"}) :
        /\ crud' = [op |-> "context", conversationId |-> c, userId |-> u, title |-> Undef,
                    fault |-> fault, error |-> NoError, returned |-> {},
                    messages |-> getRelevantContext(store, u, c, n, fault = "find")]
        /\ UNCHANGED <<configured, store, q, contract, chat, probe, cache, gen, health>>

\* ------------------------------------- ContractConversation and its chat
\* the history entries a caller can add: role of the schema's enum, and parts
HistoryArgs == {[role |-> "user", parts |-> <<"Add a termination clause">>],
                [role |-> "model", parts |-> <<"Clause 9 added">>],
                [role |-> "system", parts |-> <<"Contract: NDA">>]}
ChatPrompts == {<<"Make clause 9 mutual">>}
ChatSystemPrompt == <<"You are a legal contract expert.">>

\* contractConversation.js 88-96: push the entry, save
ContractAddMessage ==
    \E m \in HistoryArgs :
        /\ Len(contract.history) < MaxHistory
        /\ contract' = [contract EXCEPT !.history = Append(@, m)]
        /\ UNCHANGED <<configured, store, q, crud, chat, probe, cache, gen, health>>

\* contractConversation.js 123-126: the history is emptied and saved
clearHistory ==
    /\ contract.history # <<>>
    /\ contract' = [contract EXCEPT !.history = <<>>]
    /\ UNCHANGED <<configured, store, q, crud, chat, probe, cache, gen, health>>

\* part_001 61-66: generateWithChatHistory(prompt, history, {systemPrompt})
\* is called with the history of the ContractConversation
ChatStart ==
    /\ chat.status # "running"
    /\ \E prompt \in ChatPrompts :
        chat' = EnterCall("history", prompt, contract.history, ChatSystemPrompt)
    /\ UNCHANGED <<configured, store, q, crud, contract, probe, cache, gen, health>>

\* part_001 68-108: one pass of its loop over modelNames
ChatAttempt ==
    /\ chat.status = "running"
    /\ \E o \in Outcomes(GenTexts, modelNames[chat.k]) :
        chat' = Attempt(chat, o)
    /\ UNCHANGED <<configured, store, q, crud, contract, probe, cache, gen, health>>

\* ------------------------------------------- calls of the text functions
IntentInputs == {[type |-> t, clauseType |-> c, confidence |-> DefaultConfidence] :
                    t \in {"summarize", "explain", "analyze", "suggest", "adjust", "general"},
                    c \in {Undef, "indemnity"}}
DocumentTypeInputs == {Undef, "NDA"}
ToneInputs == {Undef, "", "casual", "formal"}

\* the tokens of the texts given to extractSuggestions
TextTokens == {"Consider", "Addendum", "prose", " ", "\n", "\r\n"}

\* the texts of at most n tokens
Texts(n) == UNION {[1..k -> TextTokens] : k \in 0..n}

\* the arguments of extractSuggestions: null, a number, or a string
SuggestionArgs == {[kind |-> "null", text |-> <<>>], [kind |-> "number", text |-> <<>>]}
                  \cup {[kind |-> "string", text |-> t] : t \in Texts(MaxText)}

\* prepareSystemMessage(intent, documentType, tone)
PrepareCall ==
    /\ probe.fn = "none"
    /\ \E i \in IntentInputs, d \in DocumentTypeInputs, t \in ToneInputs :
        probe' = [NoProbe EXCEPT !.fn = "prepareSystemMessage", !.intent = i,
                                 !.documentType = d, !.tone = t,
                                 !.result = prepareSystemMessage(i, d, t)]
    /\ UNCHANGED <<configured, store, q, crud, contract, chat, cache, gen, health>>

\* extractSuggestions(text)
SuggestCall ==
    /\ probe.fn = "none"
    /\ \E a \in SuggestionArgs :
        probe' = [NoProbe EXCEPT !.fn = "extractSuggestions", !.arg = a,
                                 !.result = extractSuggestionsOfValue(a)]
    /\ UNCHANGED <<configured, store, q, crud, contract, chat, cache, gen, health>>

\* ------------------------------------------------------------ specification
Next ==
    \/ processLegalQuery("p1")
    \/ otherCreate
    \/ softDelete
    \/ otherAddMessage

Spec == Init /\ [][Next]_vars

\* every provider call returns or fails and every awaited store operation
\* settles, so p is not left for ever at a step it can take: weak fairness
\* of each step. For ClassifyDone and GenerateDone, which are enabled
\* exactly when the adapter call of their step is over, weak fairness is
\* written out with that condition in the place of ENABLED.
Settles(p) ==
    /\ WF_vars(ClassifyAttempt(p))
    /\ WF_vars(LoadHistory(p))
    /\ WF_vars(GenerateAttempt(p))
    /\ WF_vars(AddUserGet(p))
    /\ WF_vars(AddUserSave(p))
    /\ WF_vars(AddAsstGet(p))
    /\ WF_vars(AddAsstSave(p))
    /\ \/ []<>~(q[p].pc = "classify" /\ q[p].call.status # "running")
       \/ []<><<ClassifyDone(p)>>_vars
    /\ \/ []<>~(q[p].pc = "generate" /\ q[p].call.status # "running")
       \/ []<><<GenerateDone(p)>>_vars

SpecFair == Init /\ [][Next]_vars /\ Settles("p1")

\* the conversation operations called in any order with any arguments
NextCrud ==
    \/ CreateCall
    \/ GetCall
    \/ ListCall
    \/ AddMessageCall
    \/ ArchiveCall
    \/ RestoreCall
    \/ ContextCall
    \/ softDelete

\* the conversation operations make no use of the adapter
InitCrud == Init /\ configured

SpecCrud == InitCrud /\ [][NextCrud]_vars

\* a ContractConversation, and chat generations over its history
NextContract ==
    \/ ContractAddMessage
    \/ clearHistory
    \/ ChatStart
    \/ ChatAttempt

SpecContract == Init /\ [][NextContract]_vars

\* two requests for the same conversation of u1, made with the same message
\* and no options; the provider answers with one classification and one
\* answer text, or fails
PairInputs(r) ==
    /\ r.pc \notin {"idle", "returned"} =>
          /\ r.message = [given |-> TRUE, text |-> <<"What is indemnity?">>]
          /\ r.conversationId = "c1"
          /\ r.userId = "u1"
          /\ r.documentType = Undef
          /\ r.tone = Undef
    /\ r.call.text \in {<<>>, <<"{", "type=analyze", "confidence=50", "}">>,
                        <<"Consider", " ", "Section 12", "\n", "prose">>}

\* a step of the request p
PairStep(p) == processLegalQuery(p) /\ PairInputs(q'[p])

\* two concurrent invocations of processLegalQuery
NextPair ==
    \/ PairStep("p1")
    \/ PairStep("p2")
    \/ otherCreate

SpecPair == Init /\ [][NextPair]_vars

\* ------------------------------------------ generateContent and its cache
\* the system prompts of the requests: those of suggestClause and of
\* rewriteSection
SystemPrompts == {<<"You are a legal expert. Suggest appropriate contract clauses.">>,
                  <<"You are a legal writing expert. Rewrite contract sections while maintaining legal accuracy.">>}

\* responses the provider can give to a generateContent request
ContentTexts == {<<>>, <<"Payment is due within 30 days.">>}

\* cacheService.getCachedAIResponse(prompt): the entry kept under the prompt
getCachedAIResponse(c, prompt) == c[prompt]

\* cacheService.cacheAIResponse(prompt, response, ttl): the entry under the
\* prompt is replaced; systemPrompt records the request that produced it
cacheAIResponse(c, prompt, response, producedFor) ==
    [c EXCEPT ![prompt] = [present |-> TRUE, response |-> response, systemPrompt |-> producedFor]]

\* lines 111-122: the cache is asked first; a truthy cached response is
\* returned, otherwise generateWithGoogleAI is entered
GenerateContentStart ==
    /\ gen.pc = "idle"
    /\ \E prompt \in CachePrompts, sp \in SystemPrompts :
        LET e == getCachedAIResponse(cache, prompt)
        IN gen' = IF e.present /\ e.response # <<>>
                  THEN [NoGen EXCEPT !.pc = "done", !.prompt = prompt, !.systemPrompt = sp,
                                     !.fromCache = TRUE, !.entry = e, !.response = e.response]
                  ELSE [NoGen EXCEPT !.pc = "call", !.prompt = prompt, !.systemPrompt = sp,
                                     !.call = EnterCall("single", prompt, <<>>, sp)]
    /\ UNCHANGED <<configured, store, q, crud, contract, chat, probe, cache, health>>

\* one model attempt of the provider call
GenerateContentAttempt ==
    /\ gen.pc = "call"
    /\ gen.call.status = "running"
    /\ \E o \in Outcomes(ContentTexts, modelNames[gen.call.k]) :
        gen' = [gen EXCEPT !.call = Attempt(@, o)]
    /\ UNCHANGED <<configured, store, q, crud, contract, chat, probe, cache, health>>

\* lines 122-131: the response is cached under the prompt and returned, or
\* the error is logged and thrown again
GenerateContentDone ==
    /\ gen.pc = "call"
    /\ gen.call.status # "running"
    /\ IF gen.call.status = "threw"
       THEN /\ gen' = [gen EXCEPT !.pc = "failed", !.err = gen.call.err]
            /\ UNCHANGED cache
       ELSE /\ cache' = cacheAIResponse(cache, gen.prompt, gen.call.ret.text, gen.systemPrompt)
            /\ gen' = [gen EXCEPT !.pc = "done", !.response = gen.call.ret.text]
    /\ UNCHANGED <<configured, store, q, crud, contract, chat, probe, health>>

\* the caller has its response or error; the next request can be made
GenerateContentReturn ==
    /\ gen.pc \in {"done", "failed"}
    /\ gen' = NoGen
    /\ UNCHANGED <<configured, store, q, crud, contract, chat, probe, cache, health>>

\* the time to live of an entry runs out
cacheExpire ==
    /\ \E prompt \in CachePrompts :
        /\ cache[prompt].present
        /\ cache' = [cache EXCEPT ![prompt] = NoEntry]
    /\ UNCHANGED <<configured, store, q, crud, contract, chat, probe, gen, health>>

\* requests to generateContent, one after the other
NextCache ==
    \/ GenerateContentStart
    \/ GenerateContentAttempt
    \/ GenerateContentDone
    \/ GenerateContentReturn
    \/ cacheExpire

SpecCache == Init /\ [][NextCache]_vars

\* ------------------------------------------ ThirdPartyHealthService.checkAll
\* part_000 lines 18-275: the statuses a check can return; checkDatabase has
\* no not_configured branch
CheckStatuses(service) ==
    IF service = "database" THEN {"healthy", "unhealthy"}
    ELSE {"not_configured", "healthy", "unhealthy"}

\* lines 300-320: the status written to results.services[service]: that of
\* the check's result; for a name allChecks only inherits, the property is a
\* function of Object.prototype whose value has no status; "unknown" for a
\* name with no property at all
ServiceOutcomes(service) ==
    IF service \in {allChecks[i] : i \in 1..Len(allChecks)} THEN CheckStatuses(service)
    ELSE IF service \in ObjectPrototypeKeys THEN {Undef}
    ELSE {"unknown"}

\* the options.services argument: left out, or a list of names
ServiceInputs ==
    {[given |-> FALSE, list |-> <<>>]}
    \cup {[given |-> TRUE, list |-> l] : l \in UNION {[1..k -> RequestedNames] : k \in 0..MaxServices}}

\* lines 277-298: results is set up and the checks are started in parallel
CheckAllStart ==
    /\ health.pc = "idle"
    /\ \E o \in ServiceInputs :
        LET servicesToCheck == IF o.given /\ Len(o.list) > 0 THEN o.list ELSE allChecks
        IN health' = [NoHealth EXCEPT !.pc = "checking", !.servicesToCheck = servicesToCheck,
                                      !.pending = 1..Len(servicesToCheck),
                                      !.overall = "healthy"]
    /\ UNCHANGED <<configured, store, q, crud, contract, chat, probe, cache, gen>>

\* lines 299-320: one of the parallel checks settles and writes its entry
CheckSettles ==
    /\ health.pc = "checking"
    /\ \E i \in health.pending :
        \E st \in ServiceOutcomes(health.servicesToCheck[i]) :
            health' = [health EXCEPT !.services[health.servicesToCheck[i]] = st,
                                     !.pending = @ \ {i}]
    /\ UNCHANGED <<configured, store, q, crud, contract, chat, probe, cache, gen>>

\* how many entries of results.services have a status of the set
CountStatus(services, statuses) ==
    Cardinality({n \in ServiceKeys : services[n] # Absent /\ services[n] \in statuses})

\* lines 324-337
overall(services) ==
    LET hasUnhealthy == CountStatus(services, {"unhealthy", "error"}) > 0
        hasNotConfigured == CountStatus(services, {"not_configured"}) > 0
        hasHealthy == CountStatus(services, {"healthy"}) > 0
    IN IF hasUnhealthy THEN "unhealthy"
       ELSE IF hasNotConfigured /\ ~hasHealthy THEN "not_configured"
       ELSE IF hasNotConfigured /\ hasHealthy THEN "degraded"
       ELSE "healthy"

\* lines 322-347: Promise.all has settled; the verdict and the summary
CheckAllFinish ==
    /\ health.pc = "checking"
    /\ health.pending = {}
    /\ health' = [health EXCEPT
                     !.pc = "done",
                     !.overall = overall(health.services),
                     !.summary = [total |-> Len(health.servicesToCheck),
                                  healthy |-> CountStatus(health.services, {"healthy"}),
                                  unhealthy |-> CountStatus(health.services, {"unhealthy", "error"}),
                                  notConfigured |-> CountStatus(health.services, {"not_configured"})]]
    /\ UNCHANGED <<configured, store, q, crud, contract, chat, probe, cache, gen>>

\* one call of checkAll
NextHealth ==
    \/ CheckAllStart
    \/ CheckSettles
    \/ CheckAllFinish

SpecHealth == Init /\ [][NextHealth]_vars

\* the text functions called with any arguments; they keep no state, so a
\* behaviour is one call
NextText ==
    \/ PrepareCall
    \/ SuggestCall

SpecText == Init /\ [][NextText]_vars

\* ------------------------------------------------------------------ claims
\* text part occurs in text as a run of consecutive tokens
Contains(text, part) ==
    \E i \in 0..(Len(text) - Len(part)) : SubSeq(text, i + 1, i + Len(part)) = part

\* C1: an invocation of processLegalQuery whose message is empty or absent
\* fails with a 400 APIError, and when it fails it has made no adapter call
\* and no access to the conversation store.
C1_EmptyMessageRejected ==
    \A p \in Procs :
        (q[p].pc \notin {"idle", "returned"} /\ (~q[p].message.given \/ q[p].message.text = <<>>)) =>
            /\ q[p].pc = "failed"
            /\ q[p].error.isAPIError
            /\ q[p].error.status = BAD_REQUEST
            /\ q[p].adapterCalls = 0
            /\ q[p].storeOps = 0
            /\ q[p].call = NoCall

C1_Witness ==
    \E p \in Procs :
        /\ q[p].pc = "failed"
        /\ q[p].message.given
        /\ q[p].message.text = <<>>
        /\ q[p].error.status = BAD_REQUEST

\* the classifier responses that are not JSON objects and hold no parsable
\* brace-delimited substring
C2_Unparsable ==
    {<<"null">>, <<"prose">>, <<"prose", "{", "prose", "}">>, <<"}", "type=adjust", "{">>}

\* C2: analyzeIntent never fails outward: once the classification call is
\* over the invocation holds an intent, and after any failure (provider not
\* configured, all models failed, unparsable response) that intent is exactly
\* {type: general, confidence: 0.95}.
C2_ClassifyNeverFails ==
    \A p \in Procs :
        /\ q[p].failStep # "classify"
        /\ q[p].pc = "load" =>
            /\ q[p].intent.type \notin {Undef, ""}
            /\ q[p].intent.confidence \in 1..100
            /\ (\/ q[p].call.status = "threw"
                \/ q[p].call.ret.text \in C2_Unparsable) =>
                    q[p].intent = [type |-> "general", clauseType |-> Undef, confidence |-> 95]

C2_Witness ==
    \E p \in Procs :
        /\ q[p].pc = "load"
        /\ q[p].call.status = "ok"
        /\ q[p].call.ret.text = <<"prose", "{", "prose", "}">>
        /\ q[p].intent.type = "general"

\* C3: in both adapter operations the models are attempted in list order,
\* each only after all before it failed, none after a success, and the text
\* returned is that of the first model that succeeded.
C3_SequentialFallback ==
    \A p \in Procs :
        LET c == q[p].call
            n == Len(c.log)
        IN c.op \in {"single", "history"} =>
            /\ n <= Len(modelNames)
            /\ \A i \in 1..n : c.log[i].model = modelNames[i]
            /\ \A i \in 1..(n - 1) : ~c.log[i].ok
            /\ c.status = "running" => \A i \in 1..n : ~c.log[i].ok
            /\ c.status = "ok" => n >= 1 /\ c.log[n].ok /\ c.ret.text = c.log[n].text

C3_Witness ==
    \E p \in Procs :
        /\ q[p].call.op = "history"
        /\ q[p].call.status = "ok"
        /\ Len(q[p].call.log) = 3
        /\ q[p].call.ret.text = q[p].call.log[3].text
        /\ q[p].call.ret.text # <<>>

\* C4: when every model of the list fails, the adapter operation fails with
\* an error that carries the underlying error of the last model attempted.
C4_ExhaustedCarriesLastError ==
    \A p \in Procs :
        LET c == q[p].call
        IN (c.status = "threw" /\ Len(c.log) = Len(modelNames)) =>
            Contains(c.err.message, c.log[Len(c.log)].err.message)

\* the model identifier a returned value records, if any
RecordedModel(ret) == IF "model" \in DOMAIN ret THEN ret.model ELSE Undef

\* C5 as claimed: a successful generation result records the identifier of
\* the model that satisfied the request (the third one when two failed).
C5_ResultRecordsModel ==
    \A p \in Procs :
        LET c == q[p].call
        IN (c.status = "ok" /\ Len(c.log) = 3) => RecordedModel(c.ret) = modelNames[3]

\* C5 as amended: a successful generation result is the text of the model
\* that satisfied the request (with the updated history for
\* generateWithChatHistory) and nothing else; the metadata of a returned
\* answer names the provider "google" whichever model answered.
C5_ResultIsTextOnly ==
    \A p \in Procs :
        LET c == q[p].call
        IN /\ c.status = "ok" =>
                /\ DOMAIN c.ret = (IF c.op = "history" THEN {"text", "history"} ELSE {"text"})
                /\ c.ret.text = c.log[Len(c.log)].text
           /\ q[p].result.returned =>
                /\ q[p].result.metadata.provider = "google"
                /\ "model" \notin DOMAIN q[p].result.metadata

C5_Witness ==
    \E p \in Procs :
        /\ q[p].pc = "generate"
        /\ q[p].call.op = "single"
        /\ q[p].call.status = "ok"
        /\ Len(q[p].call.log) = 3
        /\ q[p].call.ret = [text |-> q[p].call.log[3].text]

\* C6: with both ids given, a conversation that is missing, owned by another
\* user or deleted makes processLegalQuery fail with status 404.
C6_MissingConversationIs404 ==
    \A p \in Procs :
        (q[p].pc = "failed" /\ q[p].failStep = "history" /\ q[p].raised.status = NOT_FOUND) =>
            q[p].error.status = NOT_FOUND

\* C7: an error that is already an APIError when it is raised in
\* processLegalQuery reaches the caller unchanged.
C7_APIErrorPassesUnchanged ==
    \A p \in Procs :
        (q[p].pc = "failed" /\ q[p].raised.isAPIError) => q[p].error = q[p].raised

\* C8: with both ids given, when appending the assistant turn fails after
\* the user turn was appended, processLegalQuery fails with the error of
\* addMessage and returns nothing.
C8_AssistantAppendFailurePropagates ==
    \A p \in Procs :
        q[p].failStep \in {"addAsstGet", "addAsstSave"} =>
            /\ q[p].pc = "failed"
            /\ ~q[p].result.returned
            /\ q[p].error.isAPIError
            /\ q[p].error = q[p].raised
            /\ Len(q[p].appended) = 1
            /\ q[p].appended[1].role = "user"

C8_Witness ==
    \E p \in Procs :
        /\ q[p].pc = "failed"
        /\ q[p].failStep = "addAsstSave"
        /\ Len(q[p].appended) = 1
        /\ q[p].error.status = INTERNAL_SERVER_ERROR

\* C9: an invocation that supplies a conversation id never returns
\* successfully having recorded fewer than both turns.
C9_ConversationIdMeansBothTurns ==
    \A p \in Procs :
        (q[p].pc = "done" /\ q[p].conversationId \notin {Undef, ""}) =>
            Len(q[p].appended) = 2

\* C10: an invocation with both ids that returns has appended exactly two
\* messages to that conversation: the user's message with the derived
\* metadata type, then the assistant's message with the returned text and
\* the full result metadata, in that order.
C10_TwoTurnsInOrder ==
    \A p \in Procs :
        (/\ q[p].pc = "done"
         /\ q[p].conversationId \notin {Undef, ""}
         /\ q[p].userId \notin {Undef, ""}) =>
            LET msgs == store[q[p].conversationId].messages
            IN /\ q[p].result.returned
               /\ q[p].appended =
                    <<[role |-> "user", content |-> q[p].message.text,
                       metadata |-> [type |-> mapIntentToMetadataType(q[p].intent.type)], by |-> p],
                      [role |-> "assistant", content |-> q[p].result.text,
                       metadata |-> q[p].result.metadata, by |-> p]>>
               /\ q[p].result.metadata.type = mapIntentToMetadataType(q[p].intent.type)
               /\ \E i, j \in 1..Len(msgs) :
                    i < j /\ msgs[i] = q[p].appended[1] /\ msgs[j] = q[p].appended[2]

C10_Witness ==
    \E p \in Procs :
        /\ q[p].pc = "done"
        /\ q[p].conversationId = "c1"
        /\ q[p].userId = "u1"
        /\ Len(q[p].appended) = 2
        /\ q[p].appended[1].metadata.type = "suggest"
        /\ Len(store["c1"].messages) = 4

\* C11: processLegalQuery writes nothing to the conversation store until the
\* generation has completed successfully: every step it takes before its
\* first append (validation, classification, history load, generation, and
\* the reads of addMessage) leaves the store as it was, so an invocation that
\* failed in one of those phases has appended nothing.
PrePersistPcs == {"idle", "classify", "load", "generate", "addUserGet"}

C11_NoWriteBeforeGeneration ==
    [][\A p \in Procs :
          (q'[p] # q[p] /\ q[p].pc \in PrePersistPcs) =>
              /\ store' = store
              /\ q'[p].appended = <<>>]_vars

\* an invocation for an existing conversation with earlier turns failed in
\* the generation
C11_Witness ==
    /\ q["p1"].pc = "failed"
    /\ q["p1"].failStep = "generate"
    /\ BothIds(q["p1"])
    /\ Len(store[q["p1"].conversationId].messages) >= 2
    /\ q["p1"].appended = <<>>

\* the user and assistant messages of a list, in their order
Turns(messages) == SelectSeq(messages, LAMBDA m : m.role \in {"user", "assistant"})

\* the provider-format entry a stored turn is expected to become
ProviderEntry(m) ==
    [role |-> CASE m.role = "user" -> "user" [] m.role = "assistant" -> "model",
     parts |-> <<[text |-> m.content]>>]

\* C12: round trip: for a conversation to which N user/assistant messages
\* were appended, filtering out the system messages (lexiAIService.js 208-213)
\* and converting to the provider format (part_001 76-81) gives exactly N
\* entries, in the order of the appends, user as user and assistant as
\* model, each with the content of its message; the history a finished
\* generateWithChatHistory call handed to the provider is that conversion of
\* the history the caller loaded.
C12_HistoryRoundTrip ==
    /\ \A c \in ConvIds :
          LET turns == Turns(store[c].messages)
              h == chatHistoryOf(formatHistory(store[c].messages))
          IN /\ Len(h) = Len(turns)
             /\ \A i \in 1..Len(turns) : h[i] = ProviderEntry(turns[i])
    /\ \A p \in Procs :
          (q[p].call.op = "history" /\ q[p].call.status = "ok") =>
              /\ Len(q[p].call.chatHistory) = Len(q[p].history)
              /\ \A i \in 1..Len(q[p].history) :
                    /\ q[p].call.chatHistory[i].role = q[p].history[i].role
                    /\ q[p].call.chatHistory[i].parts = <<[text |-> q[p].history[i].parts]>>

\* three turns were appended after the seed message: an assistant turn by
\* another request, then the user and assistant turns of a query whose
\* generation was given the one-entry history
C12_Witness ==
    /\ \E c \in ConvIds :
          /\ Len(store[c].messages) = 4
          /\ store[c].messages[1].role = "system"
          /\ Len(Turns(store[c].messages)) = 3
          /\ Turns(store[c].messages)[1].role = "assistant"
          /\ Turns(store[c].messages)[2].role = "user"
          /\ Turns(store[c].messages)[3].role = "assistant"
          /\ Turns(store[c].messages)[2].content # Turns(store[c].messages)[1].content
    /\ q["p1"].pc = "done"
    /\ Len(q["p1"].history) = 1

\* C13: a conversation made by createConversation has, right after the call,
\* exactly one message, of role system and metadata type system; a call with
\* a missing user id or title fails with a 400 APIError and creates nothing.
C13_CreateSeedsOneSystemMessage ==
    [][CreateCall =>
          LET c == crud'.conversationId
          IN IF Falsy(crud'.userId) \/ Falsy(crud'.title)
             THEN /\ crud'.error.isAPIError
                  /\ crud'.error.status = BAD_REQUEST
                  /\ crud'.returned = {}
                  /\ store' = store
             ELSE crud'.error = NoError =>
                      /\ ~store[c].exists
                      /\ store'[c].exists
                      /\ Len(store'[c].messages) = 1
                      /\ store'[c].messages[1].role = "system"
                      /\ store'[c].messages[1].metadata.type = "system"]_vars

\* createConversation("u2", "NDA review") has just returned the new document
C13_Witness ==
    /\ crud.op = "create"
    /\ crud.error = NoError
    /\ crud.userId = "u2"
    /\ crud.returned = {"c1"}
    /\ store["c1"].exists
    /\ store["c1"].userId = "u2"
    /\ Len(store["c1"].messages) = 1

\* s is an initial segment of t
IsPrefix(s, t) == Len(s) <= Len(t) /\ SubSeq(t, 1, Len(s)) = s

\* C14: messages are append-only: over every operation on a conversation
\* (the service's create, addMessage, archive, restore, processLegalQuery,
\* and the methods of the conversation model itself) the message sequence
\* before the operation is a prefix of the sequence after it.
C14_MessagesAppendOnly ==
    [][/\ \A c \in ConvIds : IsPrefix(store[c].messages, store'[c].messages)
       /\ IsPrefix(contract.history, contract'.history)]_vars

Matches(c, u) ==
    /\ c \in ConvIds
    /\ store[c].exists
    /\ store[c].userId = u
    /\ store[c].status # "deleted"

\* C16: getConversation(conversationId, userId) returns a conversation only
\* when one exists with that id, owned by that user, with a status other than
\* deleted; in every other case it fails with the 404 NotFound.
C16_ReturnsOrNotFound ==
    [][GetCall =>
          IF crud'.returned # {}
          THEN crud'.returned = {crud'.conversationId}
               /\ Matches(crud'.conversationId, crud'.userId)
          ELSE crud'.error.isAPIError /\ crud'.error.status = NOT_FOUND]_vars

\* C16 (amended): getConversation returns the conversation exactly when both
\* ids are given, the store answers, and a conversation with that id, owned
\* by that user and not deleted, exists; a call with a missing id fails with
\* 400, a call whose lookup throws fails with 500, and every other call fails
\* with the 404 NotFound; the store is left as it was.
C16_ReturnsOwnedOrFails ==
    [][GetCall =>
          LET c == crud'.conversationId
              u == crud'.userId
          IN /\ store' = store
             /\ crud'.returned \subseteq {c}
             /\ crud'.returned # {} <=>
                   (~Falsy(c) /\ ~Falsy(u) /\ crud'.fault = "none" /\ Matches(c, u))
             /\ crud'.returned # {} => crud'.error = NoError
             /\ crud'.returned = {} =>
                   /\ crud'.error.isAPIError
                   /\ crud'.error.status =
                         IF Falsy(c) \/ Falsy(u) THEN BAD_REQUEST
                         ELSE IF crud'.fault = "find" THEN INTERNAL_SERVER_ERROR
                         ELSE NOT_FOUND]_vars

\* user u2 asked for the active conversation of user u1 and got the 404
C16_Witness ==
    /\ crud.op = "get"
    /\ crud.conversationId = "c1"
    /\ crud.userId = "u2"
    /\ crud.fault = "none"
    /\ store["c1"].exists
    /\ store["c1"].userId = "u1"
    /\ store["c1"].status = "active"
    /\ crud.returned = {}
    /\ crud.error = APIError(<<"Conversation not found">>, NOT_FOUND)

StatusCodes == {BAD_REQUEST, NOT_FOUND, INTERNAL_SERVER_ERROR}

\* err is an APIError with an http status code in status and a text in message
Uniform(err) ==
    /\ err.isAPIError
    /\ err.status \in StatusCodes
    /\ err.message \notin StatusCodes

\* C17: every error a conversation operation or processLegalQuery raises to
\* its caller is an APIError whose status field holds the http status code
\* and whose message field holds the text; a call of a conversation operation
\* with a missing conversation id or user id fails with status 400.
C17_ErrorsAreUniform ==
    /\ crud.error # NoError => Uniform(crud.error)
    /\ (crud.op \in {"get", "addMessage", "archive", "restore"}
        /\ (Falsy(crud.conversationId) \/ Falsy(crud.userId))) =>
            crud.error.status = BAD_REQUEST
    /\ (crud.op \in {"create", "list"} /\ Falsy(crud.userId)) =>
            crud.error.status = BAD_REQUEST
    /\ \A p \in Procs : q[p].pc = "failed" => Uniform(q[p].error)

\* the metadata kinds of the closed set
MetadataKinds == {"chat", "summarize", "explain", "analyze", "suggest", "adjust"}

\* the intent types the mapping table lists
TableKeys == {"summarize", "explain", "analyze", "suggest", "adjust",
              "InformationRequest", "ClarificationRequest", "GeneralQuery", "LegalAdvice",
              "DocumentReview", "RiskAssessment", "ComplianceCheck",
              "ClauseGeneration", "ToneAdjustment"}

\* C18: whatever string the classifier returns as intent type, the metadata
\* type derived from it is one of chat, summarize, explain, analyze, suggest,
\* adjust, and it is chat when the type is not in the mapping table; so every
\* message processLegalQuery saves carries a metadata type of that set.
C18_MetadataTypeInClosedSet ==
    /\ \A p \in Procs :
          q[p].metadataType # Undef =>
              /\ q[p].metadataType \in MetadataKinds
              /\ q[p].intent.type \notin TableKeys => q[p].metadataType = "chat"
    /\ \A c \in ConvIds : \A i \in 1..Len(store[c].messages) :
          store[c].messages[i].by \in Procs =>
              store[c].messages[i].metadata.type \in MetadataKinds

\* the history a finished generateWithChatHistory call gave to startChat has
\* roles user and model only, one entry per non-system entry of its input in
\* the input's order, and none for a system entry
ProviderHistoryClean(call) ==
    (call.op = "history" /\ call.status = "ok") =>
        LET kept == SelectSeq(call.history, LAMBDA h : h.role # "system")
        IN /\ \A i \in 1..Len(call.chatHistory) : call.chatHistory[i].role \in {"user", "model"}
           /\ Len(call.chatHistory) = Len(kept)
           /\ \A i \in 1..Len(kept) :
                 /\ call.chatHistory[i].parts = <<[text |-> kept[i].parts]>>
                 /\ kept[i].role \in {"user", "model"} => call.chatHistory[i].role = kept[i].role
                 /\ kept[i].role = "assistant" => call.chatHistory[i].role = "model"
           /\ \A i \in 1..Len(call.chatHistory), j \in 1..Len(call.history) :
                 call.history[j].role = "system" =>
                     call.chatHistory[i].parts # <<[text |-> call.history[j].parts]>>

\* C19: the history handed to the provider in a generateWithChatHistory call
\* has no system entry, and every entry has role user or model; the system
\* instruction travels in the systemPrompt option only.
C19_NoSystemEntryInProviderHistory ==
    /\ ProviderHistoryClean(chat)
    /\ chat.op = "history" => chat.systemPrompt = ChatSystemPrompt
    /\ \A p \in Procs : ProviderHistoryClean(q[p].call)

\* a call over a history holding a system entry between two turns answered
C19_Witness ==
    /\ chat.op = "history"
    /\ chat.status = "ok"
    /\ Len(chat.history) = 3
    /\ chat.history[1].role = "user"
    /\ chat.history[2].role = "system"
    /\ chat.history[3].role = "model"
    /\ Len(chat.chatHistory) = 2

\* C20: a generateWithChatHistory call that succeeds returns as history its
\* input history, entries and order unchanged, followed by exactly two
\* entries: the user turn holding the prompt, then the model turn holding the
\* text it returns.
C20_UpdatedHistory ==
    (chat.op = "history" /\ chat.status = "ok") =>
        LET n == Len(chat.history)
            out == chat.ret.history
        IN /\ Len(out) = n + 2
           /\ \A i \in 1..n : out[i] = chat.history[i]
           /\ out[n + 1] = [role |-> "user", parts |-> chat.prompt]
           /\ out[n + 2] = [role |-> "model", parts |-> chat.ret.text]
           /\ chat.ret.text = chat.log[Len(chat.log)].text
           /\ chat.log[Len(chat.log)].ok

\* the third model answered a call over a three-entry history
C20_Witness ==
    /\ chat.op = "history"
    /\ chat.status = "ok"
    /\ chat.k = 3
    /\ Len(chat.history) = 3
    /\ chat.history[1] # chat.history[2]
    /\ chat.history[3].role = "system"
    /\ Len(chat.ret.history) = 5
    /\ chat.ret.text # <<>>

\* text holds the word tone right after the token t ("t tone")
ContainsTone(text, t) ==
    \E i \in 1..(Len(text) - 1) :
        /\ text[i] = t
        /\ text[i + 1] \in {" tone while maintaining its legal meaning.",
                            " tone in your response."}

\* C21: prepareSystemMessage appends the separate tone sentence if and only
\* if a tone is given and the intent type is not adjust; for adjust the tone
\* appears in the rewrite clause only (formal when no tone is given), so for
\* intent adjust with tone casual the message holds "casual tone" and not
\* "formal tone".
C21_ToneSentenceUnlessAdjust ==
    probe.fn = "prepareSystemMessage" =>
        /\ Contains(probe.result, <<" Use a ", probe.tone, " tone in your response.">>)
              <=> (~Falsy(probe.tone) /\ probe.intent.type # "adjust")
        /\ probe.intent.type = "adjust" =>
              ContainsTone(probe.result, IF Falsy(probe.tone) THEN "formal" ELSE probe.tone)
        /\ (probe.intent.type = "adjust" /\ probe.tone = "casual") =>
              /\ ContainsTone(probe.result, "casual")
              /\ ~ContainsTone(probe.result, "formal")

\* where the lines of a text begin: at its start and after each line break
LineStarts(text) ==
    {1} \cup {i + 1 : i \in {j \in 1..Len(text) : text[j] \in {"\n", "\r\n"}}}

\* the last token of the line that begins at s
LineEnd(text, s) ==
    LET breaks == {j \in s..Len(text) : text[j] \in {"\n", "\r\n"}}
    IN IF breaks = {} THEN Len(text) ELSE Min(breaks) - 1

\* the positions of the line's tokens that are not blanks
Inked(text, s) == {j \in s..LineEnd(text, s) : text[j] # " "}

VerbTokens == {"Consider", "Ensure", "Review", "Verify", "Confirm", "Add", "Remove",
               "Update", "Check", "Include", "Exclude", "Addendum"}

\* the line that begins at s starts, once trimmed, with an action verb
Qualifies(text, s) ==
    Inked(text, s) # {} /\ text[Min(Inked(text, s))] \in VerbTokens

\* C22: extractSuggestions returns, for a string, exactly its lines that
\* begin after trimming with one of the eleven action verbs, trimmed, one
\* entry per such line, in the order of the lines; and the empty list for
\* null or an argument that is not a string.
C22_SuggestionsAreQualifyingLines ==
    probe.fn = "extractSuggestions" =>
        IF probe.arg.kind # "string" THEN probe.result = <<>>
        ELSE LET text == probe.arg.text
                 Q == {s \in LineStarts(text) : Qualifies(text, s)}
                 nth(k) == CHOOSE s \in Q : Cardinality({t \in Q : t < s}) = k - 1
             IN /\ Len(probe.result) = Cardinality(Q)
                /\ \A k \in 1..Cardinality(Q) :
                      probe.result[k] =
                          SubSeq(text, Min(Inked(text, nth(k))), Max(Inked(text, nth(k))))

\* the text "Addendum", a line break, "Consider" gave two suggestions, the
\* first for a line that only begins with the verb Add
C22_Witness ==
    /\ probe.fn = "extractSuggestions"
    /\ probe.arg.kind = "string"
    /\ probe.arg.text = <<"Addendum", "\r\n", "Consider">>
    /\ probe.result = <<<<"Addendum">>, <<"Consider">>>>

\* the steps of processLegalQuery in the order of its code
StepRank(pc) ==
    CASE pc = "idle" -> 0
      [] pc = "classify" -> 1
      [] pc = "load" -> 2
      [] pc = "generate" -> 3
      [] pc = "addUserGet" -> 4
      [] pc = "addUserSave" -> 5
      [] pc = "addAsstGet" -> 6
      [] pc = "addAsstSave" -> 7
      [] pc = "done" -> 8
      [] pc = "failed" -> 8
      [] pc = "returned" -> 9

\* the step that follows a step when the invocation goes on
StepEdges ==
    {<<"idle", "classify">>, <<"classify", "load">>, <<"load", "generate">>,
     <<"generate", "addUserGet">>, <<"generate", "done">>,
     <<"addUserGet", "addUserSave">>, <<"addUserSave", "addAsstGet">>,
     <<"addAsstGet", "addAsstSave">>, <<"addAsstSave", "done">>,
     <<"done", "returned">>}

\* C23: an invocation of processLegalQuery goes through validate, classify,
\* build prompt, load history, generate, post-process, persist, return in
\* that order and through each at most once: it never goes back to a step,
\* it leaves a step only for the next one or by failing, the history is
\* read and the turns are saved only when both ids are given, the
\* classification call is over before the history load and the answer call
\* begin, and nothing is saved before the metadata are built.
C23_StepsInOrder ==
    [][\A p \in Procs :
          /\ StepRank(q'[p].pc) >= StepRank(q[p].pc)
          /\ q'[p].pc # q[p].pc =>
                \/ <<q[p].pc, q'[p].pc>> \in StepEdges
                \/ q'[p].pc = "failed" /\ q[p].pc \notin {"done", "failed", "returned"}
                \/ q[p].pc = "failed" /\ q'[p].pc = "returned"
          /\ (q[p].pc = "load" /\ q'[p].pc = "generate") =>
                /\ q[p].adapterCalls = 1
                /\ q[p].call.status \in {"ok", "threw"}
                /\ q[p].intent # NoIntent
                /\ q[p].systemMessage # <<>>
                /\ q'[p].storeOps = (IF BothIds(q[p]) THEN 1 ELSE 0)
          /\ (q[p].pc = "generate" /\ q'[p].pc = "addUserGet") =>
                BothIds(q[p]) /\ q'[p].metadata # NoMetadata /\ q'[p].appended = <<>>
          /\ (q[p].pc = "generate" /\ q'[p].pc = "done") => ~BothIds(q[p])
          /\ Len(q'[p].appended) > Len(q[p].appended) =>
                /\ q[p].metadata # NoMetadata
                /\ BothIds(q[p])
                /\ q[p].pc \in {"addUserSave", "addAsstSave"}
          /\ q'[p].pc = "done" =>
                /\ q'[p].adapterCalls = 2
                /\ Len(q'[p].appended) = (IF BothIds(q'[p]) THEN 2 ELSE 0)
                /\ q'[p].storeOps = (IF BothIds(q'[p]) THEN 5 ELSE 0)
      ]_vars

\* an invocation with both ids is done: two adapter calls, one read of the
\* history, two turns saved
C23_Witness ==
    /\ q["p1"].pc = "done"
    /\ BothIds(q["p1"])
    /\ q["p1"].adapterCalls = 2
    /\ q["p1"].storeOps = 5
    /\ Len(q["p1"].appended) = 2
    /\ q["p1"].result.returned

\* conversation c holds a message that is not a system message
HasTurns(c) ==
    /\ c \in ConvIds
    /\ \E i \in 1..Len(store[c].messages) : store[c].messages[i].role # "system"

\* C24: for the answer processLegalQuery makes one adapter call: the call
\* with history if and only if both ids are given and the conversation it
\* loaded holds a message that is not a system message, and otherwise the
\* single-turn call with maxTokens 1000 and temperature 0.7.
C24_OneOperationForTheAnswer ==
    [][\A p \in Procs :
          (q[p].pc = "load" /\ q'[p].pc = "generate") =>
              /\ q'[p].adapterCalls = q[p].adapterCalls + 1
              /\ q'[p].call.op \in {"history", "single"}
              /\ q'[p].call.op = "history" <=>
                    (BothIds(q[p]) /\ HasTurns(q[p].conversationId))
              /\ q'[p].call.op = "single" =>
                    /\ q'[p].call.options = [temperature |-> "0.7", maxTokens |-> 1000]
                    /\ q'[p].call.history = <<>>
              /\ q'[p].call.prompt = q[p].message.text
              /\ q'[p].call.systemPrompt = q[p].systemMessage
      ]_vars

\* both ids are given and the conversation holds only its system seed: the
\* answer is asked with the single-turn call
C24_Witness ==
    /\ q["p1"].pc = "generate"
    /\ BothIds(q["p1"])
    /\ store[q["p1"].conversationId].exists
    /\ Len(store[q["p1"].conversationId].messages) = 1
    /\ ~HasTurns(q["p1"].conversationId)
    /\ q["p1"].call.op = "single"
    /\ q["p1"].call.options.maxTokens = 1000

\* C25: an adapter call makes at most as many model attempts as modelNames
\* has entries, one per model in the order of the list and none twice; an
\* invocation of processLegalQuery makes at most two adapter calls and so
\* at most six attempts; and, every provider call returning or failing, an
\* invocation that has begun ends with a result or with an error.
C25_BoundedAttemptsAndTermination ==
    /\ [](\A p \in Procs :
            /\ Len(q[p].call.log) <= Len(modelNames)
            /\ \A i \in 1..Len(q[p].call.log) : q[p].call.log[i].model = modelNames[i]
            /\ q[p].call.status = "running" => Len(q[p].call.log) = q[p].call.k - 1
            /\ q[p].adapterCalls <= 2
            /\ q[p].attempts <= 2 * Len(modelNames)
            /\ q[p].adapterCalls = 1 => q[p].attempts <= Len(modelNames))
    /\ (q["p1"].pc = "classify") ~>
           \/ q["p1"].pc = "done" /\ q["p1"].result.returned
           \/ q["p1"].pc = "failed" /\ q["p1"].error.isAPIError

\* an invocation ended with a result after six attempts: in each of its two
\* adapter calls only the last model of the list answered
C25_Witness ==
    /\ q["p1"].pc = "done"
    /\ q["p1"].attempts = 6
    /\ q["p1"].adapterCalls = 2
    /\ q["p1"].result.returned

\* C26: when an invocation of processLegalQuery fails, the conversation's
\* messages are those of before the call: the invocation has left no turn
\* of its own in the store, in particular no user turn without its
\* assistant turn.
C26_FailureLeavesNoTurn ==
    \A p \in Procs :
        q[p].pc = "failed" =>
            /\ q[p].appended = <<>>
            /\ BothIds(q[p]) =>
                  \A i \in 1..Len(store[q[p].conversationId].messages) :
                      store[q[p].conversationId].messages[i].by # p

\* the positions in conversation c of the turns saved by p
SavedBy(c, p) == {i \in 1..Len(store[c].messages) : store[c].messages[i].by = p}

\* C27: whatever the interleaving of concurrent invocations on one
\* conversation, the user turn an invocation has saved is followed at once
\* by the assistant turn of the same invocation (once that turn is saved),
\* so the stored messages that are not system messages alternate user,
\* assistant.
C27_TurnsStayPaired ==
    \A p \in Procs :
        (q[p].pc \notin {"idle", "returned"} /\ BothIds(q[p])) =>
            LET c == q[p].conversationId
                ms == store[c].messages
                mine == SavedBy(c, p)
            IN /\ Len(q[p].appended) = 2 =>
                     \E i \in mine :
                         /\ mine = {i, i + 1}
                         /\ ms[i].role = "user"
                         /\ ms[i + 1].role = "assistant"
               /\ q[p].pc = "done" =>
                     \A i \in 1..(Len(Turns(ms)) - 1) :
                         Turns(ms)[i].role # Turns(ms)[i + 1].role

\* C28: no read returns content of a soft-deleted conversation: for a
\* conversation whose status is deleted, getConversation (which also loads
\* the history of processLegalQuery) does not return it, the default
\* listing of getUserConversations does not hold it, and
\* getRelevantContext returns none of its messages.
C28_DeletedIsAbsent ==
    [][\A c \in ConvIds :
          (store[c].exists /\ store[c].status = "deleted") =>
              /\ GetCall => c \notin crud'.returned
              /\ (ListCall /\ crud'.status = Undef) => c \notin crud'.returned
              /\ (ContextCall /\ crud'.conversationId = c) => crud'.messages = <<>>
      ]_vars

C30_CachedForSameSystemPrompt ==
    gen.fromCache =>
        /\ gen.entry.present
        /\ gen.response = gen.entry.response
        /\ gen.entry.systemPrompt = gen.systemPrompt

\* C31: checkAll reports overall healthy only when every service asked for
\* reported the status healthy: for any list of names, those with no check
\* included, and any outcome of the checks, an overall of healthy goes with
\* a summary whose healthy count equals its total.
C31_HealthyOnlyIfAllHealthy ==
    (health.pc = "done" /\ health.overall = "healthy") =>
        /\ \A i \in 1..Len(health.servicesToCheck) :
              health.services[health.servicesToCheck[i]] = "healthy"
        /\ health.summary.healthy = health.summary.total

====
